---- MODULE Spec2Model ----
(***************************************************************************)
(* seqan_align.cpp: main() drops the program name from argv, align() loads *)
(* the strings into a SeqAn Align<String<Dna5>>, runs globalMsaAlignment   *)
(* with EditDistanceScore, and rebuilds one gapped C string per row, which *)
(* main() prints.                                                          *)
(*                                                                         *)
(* C arrays and loop counters are 0-based as in the source; the TLA+       *)
(* sequences that hold them are 1-based, so C index k is element k+1.      *)
(* A pointer is an index into heap; a C string is a buffer ending in NUL.  *)
(* SeqAn itself is a third-party library: globalMsaAlignment is modelled   *)
(* as a nondeterministic choice among all gap placements that form an      *)
(* alignment of the rows (every row as wide as the others, every source    *)
(* character in exactly one column, no column made of gaps only).          *)
(***************************************************************************)
EXTENDS Integers, Sequences, FiniteSets, TLC

\* Bounds of the model.
MaxSeqs == 2     \* at most this many sequences on the command line
MaxLen == 2      \* each sequence has at most this many characters
MaxCols == 3     \* globalMsaAlignment yields at most this many columns

NUL == "NUL"     \* '\0'
GAP == "-"       \* '-'
UNINIT == "?"    \* a malloc'ed byte not written yet
Alphabet == {"A", "c"}
ProgName == <<"p">>

VARIABLES
    pc,            \* position in main()/align()
    input,         \* the command-line sequences as given (history, never written)
    err,           \* error raised so far ("none": the source raises none)
    argc, argv,    \* main's argc and the pointer array argv[0..argc-1]
    heap,          \* heap[p] is the buffer pointer p points to
    nseq, seqs,    \* align's parameters; seqs names the array it was handed
    align,         \* Align<String<Dna5>>: per row its Dna5 source and gap flags
    i, j, len, offset, new_seq,   \* locals of the reconstruction loop
    pass,          \* how many times the reconstruction loop has been entered
    translated,    \* TRUE once the 's' branch (dna5_base_to_char) has run
    aligned_seqs,  \* main's aligned_seqs: the array align returned
    mi,            \* main's print loop counter
    stdout         \* lines written to std::cout

vars == <<pc, input, err, argc, argv, heap, nseq, seqs, align, i, j, len,
          offset, new_seq, pass, translated, aligned_seqs, mi, stdout>>

----------------------------------------------------------------------------
\* C strings

Strings == UNION {[1..n -> Alphabet] : n \in 0..MaxLen}

CBuf(s) == s \o <<NUL>>

RECURSIVE strlen(_)
strlen(buf) == IF buf = <<>> \/ Head(buf) = NUL THEN 0 ELSE 1 + strlen(Tail(buf))

\* What operator<<(ostream, char*) prints: the bytes before the terminator.
CStr(buf) == SubSeq(buf, 1, strlen(buf))

RECURSIVE Degap(_)
Degap(s) ==
    IF s = <<>> THEN <<>>
    ELSE IF Head(s) = GAP THEN Degap(Tail(s))
    ELSE <<Head(s)>> \o Degap(Tail(s))

----------------------------------------------------------------------------
\* SeqAn: Dna5 and Gaps

\* Conversion char -> Dna5 done by assignSource: letters of either case map
\* to their nucleotide, everything else to N.
char2dna5(ch) ==
    CASE ch \in {"A", "a"} -> 0
      [] ch \in {"C", "c"} -> 1
      [] ch \in {"G", "g"} -> 2
      [] ch \in {"T", "t"} -> 3
      [] OTHER -> 4

dna5_base_to_char(dna5_base) ==
    CASE dna5_base = 0 -> "A"
      [] dna5_base = 1 -> "C"
      [] dna5_base = 2 -> "G"
      [] dna5_base = 3 -> "T"
      [] dna5_base = 4 -> "N"
      [] OTHER -> "?"

assignSource(buf) ==
    [source |-> [c \in 1..strlen(buf) |-> char2dna5(buf[c])], gaps |-> <<>>]

\* length(arow): the number of columns of the row, gaps included.
length(arow) == Len(arow.gaps)

\* isGap(arow, j), j a 0-based view position.
isGap(arow, col) == arow.gaps[col + 1]

RECURSIVE SumLen(_)
SumLen(rows) == IF rows = <<>> THEN 0 ELSE Len(Head(rows).source) + SumLen(Tail(rows))

MaxSrcLen(rows) ==
    IF rows = <<>> THEN 0
    ELSE CHOOSE m \in {Len(rows[r].source) : r \in 1..Len(rows)} :
            \A r \in 1..Len(rows) : Len(rows[r].source) <= m

Min(a, b) == IF a <= b THEN a ELSE b

NonGaps(g) == Cardinality({c \in 1..Len(g) : ~g[c]})

\* Every gap placement globalMsaAlignment may return for these rows.
Alignments(rows) ==
    LET n == Len(rows)
    IN  UNION {
          {m \in [1..n -> [1..w -> BOOLEAN]] :
              /\ \A r \in 1..n : NonGaps(m[r]) = Len(rows[r].source)
              /\ \A c \in 1..w : \E r \in 1..n : ~m[r][c]}
          : w \in MaxSrcLen(rows)..Min(SumLen(rows), MaxCols)}

----------------------------------------------------------------------------
\* Pieces of align() and main()

activity == "r"

\* main passes argc-1 to align and prints argc-1 lines.
NSeqPrintAll(n) == n
NSeq(n) == n - 1

\* argv after the loop "argv[i-1] = argv[i]".
ShiftKeep(a) == a
Shift(a) == [k \in 1..Len(a) |-> IF k < Len(a) THEN a[k + 1] ELSE a[k]]

\* len of row r (0-based): (int)length(arow).
RowLengthOfSource(r) == strlen(heap[argv[r + 1]])
RowLength(r) == length(align[r + 1])

\* Index read from the original sequence at column j.
ReadIndexNoOffset(col, off) == col
ReadIndex(col, off) == col + off

\* offset after a gap column.
GapOffsetKept(off) == off
GapOffset(off) == off - 1

\* buf[idx] for a 0-based idx; a read outside the buffer yields an arbitrary byte.
Peek(buf, idx) == IF idx + 1 \in 1..Len(buf) THEN buf[idx + 1] ELSE UNINIT

\* Byte stored into new_seq at a non-gap column of row r (0-based): seqs[r][idx].
SourceCharDecoded(r, idx) == dna5_base_to_char(Peek(align[r + 1].source, idx))
SourceChar(r, idx) == Peek(heap[argv[r + 1]], idx)

\* seqs after "seqs[i] = new_seq".
StoreRowSkipped(a, r, p) == a
StoreRow(a, r, p) == [a EXCEPT ![r + 1] = p]

\* The 's' branch: one printed line per row, translated from Dna5.
TranslatedLines ==
    [r \in 1..nseq |-> [c \in 1..Len(align[r].source) |->
                           dna5_base_to_char(align[r].source[c])]]

----------------------------------------------------------------------------
Init ==
    \E n \in 0..MaxSeqs : \E args \in [1..n -> Strings] :
        /\ pc = "main"
        /\ input = args
        /\ err = "none"
        /\ argc = n + 1
        /\ heap = <<CBuf(ProgName)>> \o [k \in 1..n |-> CBuf(args[k])]
        /\ argv = [k \in 1..(n + 1) |-> k]
        /\ nseq = 0
        /\ seqs = "null"
        /\ align = <<>>
        /\ i = 0 /\ j = 0 /\ len = 0 /\ offset = 0 /\ new_seq = 0
        /\ pass = 0
        /\ translated = FALSE
        /\ aligned_seqs = "null"
        /\ mi = 0
        /\ stdout = <<>>

\* main, lines 89-92: shift argv down by one and call align(argc-1, argv).
MainShift ==
    /\ pc = "main"
    /\ argv' = Shift(argv)
    /\ nseq' = NSeq(argc)
    /\ seqs' = "argv"
    /\ pc' = "setup"
    /\ UNCHANGED <<input, err, argc, heap, align, i, j, len, offset, new_seq,
                   pass, translated, aligned_seqs, mi, stdout>>

\* A variant of AlignSetup that validates the alphabet first.
AlignSetupChecked ==
    /\ pc = "setup"
    /\ IF \E r \in 1..nseq : \E c \in 1..strlen(heap[argv[r]]) :
             heap[argv[r]][c] \notin {"A", "C", "G", "T", "N"}
       THEN /\ err' = "AlphabetError"
            /\ pc' = "done"
            /\ UNCHANGED align
       ELSE /\ align' = [r \in 1..nseq |-> assignSource(heap[argv[r]])]
            /\ pc' = "msa"
            /\ UNCHANGED err
    /\ UNCHANGED <<input, argc, argv, heap, nseq, seqs, i, j, len, offset,
                   new_seq, pass, translated, aligned_seqs, mi, stdout>>

\* align, lines 36-40: resize(rows(align), nseq) and assignSource per row.
AlignSetup ==
    /\ pc = "setup"
    /\ align' = [r \in 1..nseq |-> assignSource(heap[argv[r]])]
    /\ pc' = "msa"
    /\ UNCHANGED <<input, err, argc, argv, heap, nseq, seqs, i, j, len, offset,
                   new_seq, pass, translated, aligned_seqs, mi, stdout>>

\* align, line 43: globalMsaAlignment(align, EditDistanceScore()).
GlobalMsa ==
    /\ pc = "msa"
    /\ \E m \in Alignments(align) :
          align' = [r \in 1..nseq |-> [align[r] EXCEPT !.gaps = m[r]]]
    /\ pc' = "branch"
    /\ UNCHANGED <<input, err, argc, argv, heap, nseq, seqs, i, j, len, offset,
                   new_seq, pass, translated, aligned_seqs, mi, stdout>>

\* align, lines 45-46 and 58: the branch on activity.
Branch ==
    /\ pc = "branch"
    /\ IF activity = "s"
       THEN /\ stdout' = stdout \o TranslatedLines
            /\ translated' = TRUE
            /\ pc' = "ret"
            /\ UNCHANGED <<i, pass>>
       ELSE IF activity = "r"
       THEN /\ i' = 0
            /\ pass' = pass + 1
            /\ pc' = "rows"
            /\ UNCHANGED <<stdout, translated>>
       ELSE /\ pc' = "ret"
            /\ UNCHANGED <<stdout, translated, i, pass>>
    /\ UNCHANGED <<input, err, argc, argv, heap, nseq, seqs, align, j, len,
                   offset, new_seq, aligned_seqs, mi>>

\* align, lines 61-65: take row i, malloc len+1 bytes, offset = 0, j = 0.
RowBegin ==
    /\ pc = "rows"
    /\ i < nseq
    /\ len' = RowLength(i)
    /\ heap' = Append(heap, [c \in 1..(RowLength(i) + 1) |-> UNINIT])
    /\ new_seq' = Len(heap) + 1
    /\ offset' = 0
    /\ j' = 0
    /\ pc' = "col"
    /\ UNCHANGED <<input, err, argc, argv, nseq, seqs, align, i, pass,
                   translated, aligned_seqs, mi, stdout>>

\* align, lines 66-69: a gap column.
ColGap ==
    /\ pc = "col"
    /\ j < len
    /\ isGap(align[i + 1], j)
    /\ heap' = [heap EXCEPT ![new_seq][j + 1] = GAP]
    /\ offset' = GapOffset(offset)
    /\ j' = j + 1
    /\ UNCHANGED <<pc, input, err, argc, argv, nseq, seqs, align, i, len,
                   new_seq, pass, translated, aligned_seqs, mi, stdout>>

\* align, lines 66-67 and 70-72: a column holding a character.
ColChar ==
    /\ pc = "col"
    /\ j < len
    /\ ~isGap(align[i + 1], j)
    /\ heap' = [heap EXCEPT ![new_seq][j + 1] = SourceChar(i, ReadIndex(j, offset))]
    /\ j' = j + 1
    /\ UNCHANGED <<pc, input, err, argc, argv, nseq, seqs, align, i, len,
                   offset, new_seq, pass, translated, aligned_seqs, mi, stdout>>

\* align, lines 74-75: terminate new_seq, store it in seqs[i], next row.
RowEnd ==
    /\ pc = "col"
    /\ j >= len
    /\ heap' = [heap EXCEPT ![new_seq][len + 1] = NUL]
    /\ argv' = StoreRow(argv, i, new_seq)
    /\ i' = i + 1
    /\ pc' = "rows"
    /\ UNCHANGED <<input, err, argc, nseq, seqs, align, j, len, offset,
                   new_seq, pass, translated, aligned_seqs, mi, stdout>>

\* align, line 77: the loop over the rows ends.
RowsDone ==
    /\ pc = "rows"
    /\ i >= nseq
    /\ pc' = "ret"
    /\ UNCHANGED <<input, err, argc, argv, heap, nseq, seqs, align, i, j, len,
                   offset, new_seq, pass, translated, aligned_seqs, mi, stdout>>

\* align, line 85, and main, line 92: return seqs into aligned_seqs.
AlignReturn ==
    /\ pc = "ret"
    /\ aligned_seqs' = seqs
    /\ mi' = 0
    /\ pc' = "print"
    /\ UNCHANGED <<input, err, argc, argv, heap, nseq, seqs, align, i, j, len,
                   offset, new_seq, pass, translated, stdout>>

\* main, lines 93-95: print aligned_seqs[mi].
MainPrint ==
    /\ pc = "print"
    /\ mi < NSeq(argc)
    /\ stdout' = Append(stdout, CStr(heap[argv[mi + 1]]))
    /\ mi' = mi + 1
    /\ UNCHANGED <<pc, input, err, argc, argv, heap, nseq, seqs, align, i, j,
                   len, offset, new_seq, pass, translated, aligned_seqs>>

\* main, line 96: return 0.
MainReturn ==
    /\ pc = "print"
    /\ mi >= NSeq(argc)
    /\ pc' = "done"
    /\ UNCHANGED <<input, err, argc, argv, heap, nseq, seqs, align, i, j, len,
                   offset, new_seq, pass, translated, aligned_seqs, mi, stdout>>

Next ==
    \/ MainShift \/ AlignSetup \/ GlobalMsa \/ Branch
    \/ RowBegin \/ ColGap \/ ColChar \/ RowEnd \/ RowsDone
    \/ AlignReturn \/ MainPrint \/ MainReturn

Spec == Init /\ [][Next]_vars

\* The loop of lines 61-77 entered once more on the alignment it has just
\* walked, with seqs as the first pass left it.
Rerun ==
    /\ pc = "ret"
    /\ activity = "r"
    /\ pass = 1
    /\ i' = 0
    /\ pass' = pass + 1
    /\ pc' = "rows"
    /\ UNCHANGED <<input, err, argc, argv, heap, nseq, seqs, align, j, len,
                   offset, new_seq, translated, aligned_seqs, mi, stdout>>

NextRerun == Next \/ Rerun

SpecRerun == Init /\ [][NextRerun]_vars

----------------------------------------------------------------------------
\* Vocabulary of the properties

Returned == pc \in {"ret", "print", "done"}

Rows == 0..(nseq - 1)

\* The string align left in seqs[r].
OutRow(r) == CStr(heap[argv[r + 1]])

\* The buffer the p-th pass of the reconstruction loop built for row r.
PassRow(p, r) == CStr(heap[argc + (p - 1) * nseq + r + 1])

\* The gapped form of s under the gap flags g: a gap symbol at every gap
\* column, the next character of s at every other column.
RECURSIVE Gapped(_, _)
Gapped(g, s) ==
    IF g = <<>> THEN <<>>
    ELSE IF Head(g) THEN <<GAP>> \o Gapped(Tail(g), s)
    ELSE <<Head(s)>> \o Gapped(Tail(g), Tail(s))

BadInput ==
    \E r \in 1..Len(input) : \E c \in 1..Len(input[r]) :
        input[r][c] \notin {"A", "C", "G", "T", "N"}

HasGapBeforeChar(row) ==
    \E c \in 1..Len(row) : \E d \in 1..Len(row) : c < d /\ row[c] = GAP /\ row[d] # GAP

Cursor == j + offset

----------------------------------------------------------------------------
\* C1: once align has returned, every output row with its gap symbols
\* removed is the input sequence of the same index, character for character.
RoundTrip ==
    Returned => \A r \in Rows : Degap(OutRow(r)) = input[r + 1]

RoundTripWitness ==
    /\ pc = "done"
    /\ \E r \in Rows : HasGapBeforeChar(OutRow(r)) /\ Len(input[r + 1]) = MaxLen

OneRowPerInput ==
    /\ pc = "setup" =>
          /\ nseq = argc - 1
          /\ nseq = Len(input)
          /\ \A r \in Rows : CStr(heap[argv[r + 1]]) = input[r + 1]
    /\ pc = "done" =>
          /\ Len(stdout) = argc - 1
          /\ Len(stdout) = Len(input)
          /\ \A k \in 1..Len(stdout) : stdout[k] = Gapped(align[k].gaps, input[k])

OneRowPerInputWitness ==
    /\ pc = "done"
    /\ Len(input) = MaxSeqs
    /\ input[1] # input[MaxSeqs]
    /\ stdout[1] # stdout[MaxSeqs]

InputUntouched ==
    pc \in {"print", "done"} =>
        /\ \A r \in Rows : argv[r + 1] <= argc
        /\ \A r \in Rows : heap[argv[r + 1]] = CBuf(input[r + 1])
        /\ aligned_seqs # seqs

\* C6 as amended: the original character buffers are never written, but
\* every entry of the array handed to align is overwritten with a newly
\* allocated row, and that same array is what align returns.
InputArrayOverwritten ==
    /\ heap[1] = CBuf(ProgName)
    /\ \A k \in 1..Len(input) : heap[k + 1] = CBuf(input[k])
    /\ pc \in {"print", "done"} =>
          /\ aligned_seqs = seqs
          /\ seqs = "argv"
          /\ \A r \in Rows : argv[r + 1] > argc
          /\ \A r \in Rows : \A q \in Rows : r # q => argv[r + 1] # argv[q + 1]

InputArrayOverwrittenWitness ==
    /\ pc = "print"
    /\ nseq = MaxSeqs
    /\ \E r \in Rows : heap[argv[r + 1]] # CBuf(input[r + 1])

CursorInv ==
    /\ pc = "col" =>
          /\ Cursor >= 0
          /\ Cursor = NonGaps(SubSeq(align[i + 1].gaps, 1, j))
          /\ j <= len
          /\ Len(heap[new_seq]) = len + 1
          /\ \A c \in 1..j : heap[new_seq][c] # UNINIT
          /\ \A c \in (j + 1)..(len + 1) : heap[new_seq][c] = UNINIT
          /\ (j < len /\ ~isGap(align[i + 1], j)) =>
                /\ Cursor < Len(input[i + 1])
                /\ Cursor < strlen(heap[argv[i + 1]])
    /\ (pc = "rows" /\ i > 0) =>
          /\ Len(heap[argv[i]]) = len + 1
          /\ heap[argv[i]][len + 1] = NUL
          /\ strlen(heap[argv[i]]) = len

\* Step part of C9: how one step of the loop moves the cursor.
CursorStep ==
    /\ (pc = "rows" /\ pc' = "col") => Cursor' = 0
    /\ (pc = "col" /\ pc' = "col") =>
          /\ Cursor' >= Cursor
          /\ isGap(align[i + 1], j) => Cursor' = Cursor
          /\ ~isGap(align[i + 1], j) => Cursor' = Cursor + 1

\* C9: while row i is rebuilt the read cursor j+offset starts at 0, stays
\* put across a gap column and advances by one across any other column; it
\* counts the non-gap columns to its left, indexes a character of input i
\* at every non-gap column, every write goes to an index in [0, len] of the
\* len+1 bytes allocated, and the terminator is written at index len.
CursorLaw == [](CursorInv) /\ [][CursorStep]_vars

CursorLawWitness ==
    /\ pc = "col"
    /\ j = len
    /\ Cursor = MaxLen
    /\ offset < 0
    /\ HasGapBeforeChar(SubSeq(heap[new_seq], 1, len))

\* C10: no error is raised and the 's' branch never runs; every non-gap
\* byte of a returned row is the byte of the caller's original sequence at
\* that position, so a character outside ACGTN comes out unchanged.
VerbatimCopy ==
    /\ err = "none"
    /\ translated = FALSE
    /\ pc \in {"main", "setup", "msa", "branch", "rows", "col", "ret"} => stdout = <<>>
    /\ Returned =>
          \A r \in Rows : \A c \in 1..Len(align[r + 1].gaps) :
              ~align[r + 1].gaps[c] =>
                  heap[argv[r + 1]][c] =
                      input[r + 1][NonGaps(SubSeq(align[r + 1].gaps, 1, c))]

VerbatimCopyWitness ==
    /\ pc = "done"
    /\ \E k \in 1..Len(stdout) : \E c \in 1..Len(stdout[k]) :
          /\ stdout[k][c] = "c"
          /\ dna5_base_to_char(char2dna5(stdout[k][c])) # stdout[k][c]

====
